---- MODULE Spec2Model ----
(***************************************************************************)
(* Multi-session bulk sender: the session registry and lifecycle           *)
(* (activeClients, /code, initializeClient, /delete-session) and the bulk  *)
(* dispatch engine (activeTasks, /send-message, /stop-task).               *)
(*                                                                         *)
(* The repository holds two copies of the service: the one with group      *)
(* listing (src/unnamed/part_000) and the earlier one (src/index.js).      *)
(* `build` says which copy is running; it is chosen at start-up and never  *)
(* changes.  Every handler is one action per run-to-completion step: a     *)
(* handler that awaits is split at the await.                               *)
(***************************************************************************)
EXTENDS Integers, Sequences, FiniteSets, TLC

\* ---------------------------------------------------------------- bounds
MaxReqs == 2      \* /code requests that get past the existing-session check
MaxClients == 4   \* makeWASocket calls over the run
MaxAttachClients == 3  \* makeWASocket calls over a run of SpecAttach
MaxTasks == 2     \* accepted /send-message requests over the run
MaxItems == 2     \* lines of an uploaded message file
MaxMs == 1        \* clock readings taken within one stretch are 1 ms apart, up to here
MaxEpoch == 1     \* stretches of the clock, one cache lifetime apart
MaxFetches == 1   \* directory requests in flight at once

\* ------------------------------------------------------------- constants
MaxReconnectAttempts == 3
GroupsTTL == 300000

Nums == {"15550001"}
Owners == {"u1", "u2"}
NoOwner == ""
DefaultUser == "defaultUser"
Builds == {"groups", "simple"}

VARIABLES
    build,            \* which copy of the service runs
    now,              \* the latest reading of Date.now()
    creds,            \* temp/<sessionId>: state.creds.registered, or "none" when erased
    activeClients,    \* Map sessionId -> sessionInfo object (0: no entry)
    infos,            \* the sessionInfo objects ever created
    clients,          \* the sockets ever created by makeWASocket
    reqs,             \* /code requests past the existing-session check
    reconnectTimers,  \* pending setTimeout(..., 5000) per sessionInfo object
    initPending,      \* initializeClient calls suspended at their first await
    openPending,      \* open handlers suspended at groupFetchAllParticipating
    groupReqs,        \* /groups and /refresh-groups requests suspended on the listing
    sends,            \* /send-message requests suspended in the lazy socket creation
    tasks,            \* the taskInfo objects ever created, each with its loop's position
    activeTasks       \* Map taskId -> taskInfo object (0: no entry)

sessVars == <<creds, activeClients, infos, clients, reqs, reconnectTimers,
              initPending, openPending>>

taskVars == <<sends, tasks, activeTasks>>

vars == <<build, now, sessVars, groupReqs, taskVars>>

\* --------------------------------------------------------------- helpers
SessionIdOf(num, ownerId) == <<"session", num, ownerId>>

RegOwners == Owners \cup {DefaultUser}

SessionIds == {SessionIdOf(n, o) : n \in Nums, o \in RegOwners}

\* The readings Date.now() can return, and those not before the latest one.
Readings == {1 + e * GroupsTTL + m : e \in 0..MaxEpoch, m \in 0..MaxMs}

Later == {t \in Readings : t >= now}

Live == {"connecting", "open"}

IsLive(c) == clients[c].phase \in Live

Has(sid) == activeClients[sid] # 0

LiveClientsOf(sid) == {c \in 1..Len(clients) : clients[c].sid = sid /\ IsLive(c)}

NewClient(sid, i, kind, r) ==
    [sid |-> sid, info |-> i, kind |-> kind, req |-> r, phase |-> "connecting"]

\* ------------------------------------------------------------------ Init
Init ==
    /\ build \in Builds
    /\ now = 1
    /\ creds = [s \in SessionIds |-> "none"]
    /\ activeClients = [s \in SessionIds |-> 0]
    /\ infos = <<>>
    /\ clients = <<>>
    /\ reqs = <<>>
    /\ reconnectTimers = <<>>
    /\ initPending = <<>>
    /\ openPending = {}
    /\ groupReqs = {}
    /\ sends = <<>>
    /\ tasks = <<>>
    /\ activeTasks = [id \in Readings |-> 0]

\* ------------------------------------------------------------- GET /code
\* The owner a /code request runs under: part_000 requires one, index.js
\* falls back to "defaultUser".
CodeOwner(ownerId) ==
    IF ownerId = NoOwner /\ build = "simple" THEN DefaultUser ELSE ownerId

\* CodeOutcome without the `existingSession.registered` early return.
CodeOutcomeNoRegisteredCheck(num, ownerId) ==
    LET o == CodeOwner(ownerId)
        sid == SessionIdOf(num, o)
    IN  IF o = NoOwner THEN "owner-required"
        ELSE IF Has(sid) /\ infos[activeClients[sid]].isConnecting THEN "in-progress"
        ELSE "proceed"

\* The synchronous head of the handler, up to the first await.
CodeOutcome(num, ownerId) ==
    LET o == CodeOwner(ownerId)
        sid == SessionIdOf(num, o)
    IN  IF o = NoOwner THEN "owner-required"
        ELSE IF Has(sid) /\ infos[activeClients[sid]].isConnecting THEN "in-progress"
        ELSE IF Has(sid) /\ infos[activeClients[sid]].registered THEN "already-registered"
        ELSE "proceed"

\* The request passes the existing-session check and suspends at
\* `await useMultiFileAuthState(sessionPath)`.
CodeRequest(num, ownerId) ==
    /\ Len(reqs) < MaxReqs
    /\ CodeOutcome(num, ownerId) = "proceed"
    /\ reqs' = Append(reqs, [num |-> num, sid |-> SessionIdOf(num, CodeOwner(ownerId)),
                             ownerId |-> CodeOwner(ownerId), pc |-> "auth",
                             info |-> 0, client |-> 0, isResolved |-> FALSE,
                             resp |-> "none", responses |-> 0, timeout |-> FALSE,
                             direct |-> FALSE])
    /\ creds' = [creds EXCEPT ![SessionIdOf(num, CodeOwner(ownerId))] =
                    IF @ = "none" THEN "fresh" ELSE @]
    /\ UNCHANGED <<groupReqs, taskVars, build, now, activeClients, infos, clients, reconnectTimers,
                   initPending, openPending>>

\* The request is answered by the head of the handler, which returns before
\* any write: no owner, a session being set up, or a registered session.
CodeRefused(num, ownerId) ==
    /\ Len(reqs) < MaxReqs
    /\ CodeOutcome(num, ownerId) # "proceed"
    /\ reqs' = Append(reqs, [num |-> num, sid |-> SessionIdOf(num, CodeOwner(ownerId)),
                             ownerId |-> CodeOwner(ownerId), pc |-> "done",
                             info |-> 0, client |-> 0, isResolved |-> FALSE,
                             resp |-> CodeOutcome(num, ownerId), responses |-> 1,
                             timeout |-> FALSE, direct |-> FALSE])
    /\ UNCHANGED <<groupReqs, taskVars, build, now, creds, activeClients, infos, clients,
                   reconnectTimers, initPending, openPending>>

NewInfo(sid, ownerId, c, registered, groups, fetched) ==
    [sid |-> sid, ownerId |-> ownerId, client |-> c, registered |-> registered,
     pairingCode |-> "display", isConnecting |-> ~registered,
     reconnectAttempts |-> 0, groups |-> groups, groupsLastFetched |-> fetched]

\* resolveRequest / rejectRequest without `if (!isResolved)`.
AnswerUnguarded(rs, r, data) ==
    [rs EXCEPT ![r].isResolved = TRUE, ![r].resp = data, ![r].responses = @ + 1,
               ![r].timeout = FALSE]

\* resolveRequest / rejectRequest: the first call answers the request, clears
\* the 120 s timer and drops isConnecting on the request's own sessionInfo.
Answer(rs, r, data) ==
    IF rs[r].isResolved THEN rs
    ELSE [rs EXCEPT ![r].isResolved = TRUE, ![r].resp = data, ![r].responses = @ + 1,
                    ![r].timeout = FALSE]

AnswerInfo(rs, r, inf) ==
    IF rs[r].isResolved THEN inf ELSE [inf EXCEPT !.isConnecting = FALSE]

\* catch (err): an await of the handler threw.
CodeAuthFail(r) ==
    /\ reqs[r].pc \in {"auth"}
    /\ activeClients' = [activeClients EXCEPT ![reqs[r].sid] = 0]
    /\ reqs' = [reqs EXCEPT ![r].pc = "done", ![r].resp = "error", ![r].responses = @ + 1]
    /\ UNCHANGED <<groupReqs, taskVars, build, now, creds, infos, clients, reconnectTimers,
                   initPending, openPending>>

\* state.creds.registered: the stored-credentials branch.  part_000 opens a
\* socket of its own to list the groups and suspends on the listing.
CodeStored(r) ==
    LET rq == reqs[r]
        i == Len(infos) + 1
    IN  /\ rq.pc = "auth"
        /\ creds[rq.sid] = "registered"
        /\ IF build = "groups"
           THEN /\ Len(clients) < MaxClients
                /\ clients' = Append(clients, NewClient(rq.sid, 0, "temp", r))
                /\ reqs' = [reqs EXCEPT ![r].pc = "temp", ![r].client = Len(clients) + 1]
                /\ UNCHANGED <<activeClients, infos, reconnectTimers, initPending>>
           ELSE /\ infos' = Append(infos, NewInfo(rq.sid, rq.ownerId, 0, TRUE, "null", 0))
                /\ reconnectTimers' = Append(reconnectTimers, 0)
                /\ initPending' = Append(initPending, 0)
                /\ activeClients' = [activeClients EXCEPT ![rq.sid] = i]
                /\ reqs' = [reqs EXCEPT ![r].pc = "done", ![r].info = i,
                                        ![r].isResolved = TRUE,
                                        ![r].resp = "already-registered",
                                        ![r].responses = @ + 1]
                /\ UNCHANGED clients
        /\ UNCHANGED <<groupReqs, taskVars, build, now, creds, openPending>>

\* The listing of the stored-credentials branch returned (ok) or threw: only
\* the success path reaches waClient.end().
CodeStoredListed(r, ok, t) ==
    LET rq == reqs[r]
        i == Len(infos) + 1
    IN  /\ rq.pc = "temp"
        /\ t \in Later
        /\ now' = t
        /\ clients' = IF ok THEN [clients EXCEPT ![rq.client].phase = "closed"] ELSE clients
        /\ infos' = Append(infos, NewInfo(rq.sid, rq.ownerId, 0, TRUE,
                                          IF ok THEN "list" ELSE "empty", t))
        /\ reconnectTimers' = Append(reconnectTimers, 0)
        /\ initPending' = Append(initPending, 0)
        /\ activeClients' = [activeClients EXCEPT ![rq.sid] = i]
        /\ reqs' = [reqs EXCEPT ![r].pc = "done", ![r].info = i, ![r].isResolved = TRUE,
                                ![r].resp = "already-registered", ![r].responses = @ + 1]
        /\ UNCHANGED <<groupReqs, taskVars, build, creds, openPending>>

\* No stored credentials: makeWASocket, a fresh sessionInfo, activeClients.set,
\* the 120 s timeout and the 3 s direct pairing-code timer.
CodePair(r) ==
    LET rq == reqs[r]
        i == Len(infos) + 1
        c == Len(clients) + 1
    IN  /\ rq.pc = "auth"
        /\ creds[rq.sid] # "registered"
        /\ Len(clients) < MaxClients
        /\ clients' = Append(clients, NewClient(rq.sid, i, "code", r))
        /\ infos' = Append(infos, NewInfo(rq.sid, rq.ownerId, c, FALSE,
                                          IF build = "groups" THEN "empty" ELSE "null", 0))
        /\ reconnectTimers' = Append(reconnectTimers, 0)
        /\ initPending' = Append(initPending, 0)
        /\ activeClients' = [activeClients EXCEPT ![rq.sid] = i]
        /\ creds' = [creds EXCEPT ![rq.sid] = "fresh"]
        /\ reqs' = [reqs EXCEPT ![r].pc = "waiting", ![r].info = i, ![r].client = c,
                                ![r].timeout = TRUE, ![r].direct = TRUE]
        /\ UNCHANGED <<groupReqs, taskVars, build, now, openPending>>

\* connectionTimeout fired.
ConnectionTimeout(r) ==
    /\ reqs[r].timeout
    /\ reqs' = Answer(reqs, r, "timeout")
    /\ infos' = [infos EXCEPT ![reqs[r].info] = AnswerInfo(reqs, r, @)]
    /\ UNCHANGED <<groupReqs, taskVars, build, now, creds, activeClients, clients, reconnectTimers,
                   initPending, openPending>>

\* The 3 s timer: requestPairingCode on the socket; `got` is whether it
\* returned a code (it throws on a socket that is gone).
DirectPairing(r, got) ==
    LET rq == reqs[r]
        hit == got /\ ~rq.isResolved
    IN  /\ rq.direct
        /\ got => IsLive(rq.client)
        /\ reqs' = [(IF hit THEN Answer(reqs, r, "code_received") ELSE reqs)
                        EXCEPT ![r].direct = FALSE]
        /\ infos' = IF hit
                    THEN [infos EXCEPT ![rq.info] =
                             [AnswerInfo(reqs, r, @) EXCEPT !.pairingCode = "api"]]
                    ELSE infos
        /\ UNCHANGED <<groupReqs, taskVars, build, now, creds, activeClients, clients, reconnectTimers,
                       initPending, openPending>>

\* connection.update carrying a qr while the request is unanswered.
Qr(c, got) ==
    LET cl == clients[c]
        r == cl.req
    IN  /\ cl.kind = "code" /\ cl.phase = "connecting"
        /\ ~reqs[r].isResolved
        /\ reqs' = Answer(reqs, r, IF got THEN "code_received" ELSE "qr_received")
        /\ infos' = [infos EXCEPT ![cl.info] =
                        [AnswerInfo(reqs, r, @) EXCEPT
                            !.pairingCode = IF got THEN "api" ELSE @]]
        /\ UNCHANGED <<groupReqs, taskVars, build, now, creds, activeClients, clients, reconnectTimers,
                       initPending, openPending>>

\* ------------------------------------------------- connection.update events
\* What the open handler writes once it is past the group listing.
Opened(inf, groups, t) ==
    [inf EXCEPT !.registered = TRUE, !.isConnecting = FALSE, !.reconnectAttempts = 0,
                !.groups = IF groups = "keep" THEN @ ELSE groups,
                !.groupsLastFetched = IF groups = "list" THEN t ELSE @]

\* connection === "open" on a socket of /code or of initializeClient.  In
\* part_000 the handler suspends on groupFetchAllParticipating before it
\* marks the session registered; in index.js it runs to the end.
Open(c) ==
    LET cl == clients[c]
    IN  /\ cl.kind \in {"code", "init"}
        /\ cl.phase = "connecting"
        /\ clients' = [clients EXCEPT ![c].phase = "open"]
        /\ creds' = [creds EXCEPT ![cl.sid] = IF @ = "none" THEN @ ELSE "registered"]
        /\ IF build = "groups"
           THEN /\ openPending' = openPending \cup {c}
                /\ UNCHANGED <<infos, reqs>>
           ELSE /\ infos' = [infos EXCEPT ![cl.info] = Opened(@, "keep", now)]
                /\ reqs' = IF cl.kind = "code" THEN Answer(reqs, cl.req, "connected")
                           ELSE reqs
                /\ UNCHANGED openPending
        /\ UNCHANGED <<groupReqs, taskVars, build, now, activeClients, reconnectTimers, initPending>>

\* The listing awaited by the open handler returned (ok) or threw.
OpenListed(c, ok, t) ==
    LET cl == clients[c]
        groups == IF ok THEN "list" ELSE IF cl.kind = "code" THEN "empty" ELSE "keep"
    IN  /\ c \in openPending
        /\ ok => cl.phase = "open"
        /\ t \in Later /\ (~ok => t = now)
        /\ now' = t
        /\ openPending' = openPending \ {c}
        /\ infos' = [infos EXCEPT ![cl.info] = Opened(@, groups, t)]
        /\ reqs' = IF cl.kind = "code" THEN Answer(reqs, cl.req, "connected") ELSE reqs
        /\ UNCHANGED <<groupReqs, taskVars, build, creds, activeClients, clients,
                       reconnectTimers, initPending>>

\* Closed without `sessionInfo.reconnectAttempts++`.
ClosedNoCount(inf, kind, auth) ==
    IF auth
    THEN [inf EXCEPT !.registered = FALSE, !.isConnecting = FALSE,
                     !.groups = IF kind = "code" /\ build = "groups" THEN "empty" ELSE @]
    ELSE [inf EXCEPT !.isConnecting = IF inf.reconnectAttempts + 1 <= MaxReconnectAttempts
                                      THEN @ ELSE FALSE]

\* What the close handler writes: statusCode 401, or any other cause.
Closed(inf, kind, auth) ==
    IF auth
    THEN [inf EXCEPT !.registered = FALSE, !.isConnecting = FALSE,
                     !.groups = IF kind = "code" /\ build = "groups" THEN "empty" ELSE @]
    ELSE [inf EXCEPT !.reconnectAttempts = @ + 1,
                     !.isConnecting = IF inf.reconnectAttempts + 1 <= MaxReconnectAttempts
                                      THEN @ ELSE FALSE]

\* connection === "close" on a socket of /code or of initializeClient.  The
\* socket's phase keeps the cause: "rejected" for statusCode 401, "closed"
\* for any other.
Close(c, auth) ==
    LET cl == clients[c]
        i == cl.info
        retry == ~auth /\ infos[i].reconnectAttempts + 1 <= MaxReconnectAttempts
    IN  /\ cl.kind \in {"code", "init"}
        /\ IsLive(c)
        /\ clients' = [clients EXCEPT ![c].phase = IF auth THEN "rejected" ELSE "closed"]
        /\ infos' = [infos EXCEPT ![i] = Closed(@, cl.kind, auth)]
        /\ reconnectTimers' = [reconnectTimers EXCEPT ![i] = IF retry THEN @ + 1 ELSE @]
        /\ reqs' = IF cl.kind = "code" /\ ~retry
                   THEN Answer(reqs, cl.req, IF auth THEN "auth-failed" ELSE "max-reconnect")
                   ELSE reqs
        /\ UNCHANGED <<groupReqs, taskVars, build, now, creds, activeClients, initPending, openPending>>

\* The 5 s reconnect timer: initializeClient is called when the sessionId is
\* in the registry, and suspends at its first await.
ReconnectTimer(i) ==
    /\ reconnectTimers[i] > 0
    /\ reconnectTimers' = [reconnectTimers EXCEPT ![i] = @ - 1]
    /\ initPending' = [initPending EXCEPT ![i] = IF Has(infos[i].sid) THEN @ + 1 ELSE @]
    /\ UNCHANGED <<groupReqs, taskVars, build, now, creds, activeClients, infos, clients, reqs, openPending>>

\* useMultiFileAuthState(authPath) returned: an erased credential directory
\* exists again, with fresh credentials.
AuthStateLoaded(cr, sid) ==
    [cr EXCEPT ![sid] = IF @ = "none" THEN "fresh" ELSE @]

\* initializeClient past its awaits: a new socket is stored on the
\* sessionInfo it was called with; a throw only drops isConnecting.
InitializeClient(i, ok) ==
    /\ initPending[i] > 0
    /\ initPending' = [initPending EXCEPT ![i] = @ - 1]
    /\ IF ok
       THEN /\ Len(clients) < MaxClients
            /\ clients' = Append(clients, NewClient(infos[i].sid, i, "init", 0))
            /\ infos' = [infos EXCEPT ![i].client = Len(clients) + 1,
                                      ![i].isConnecting = TRUE]
            /\ creds' = AuthStateLoaded(creds, infos[i].sid)
       ELSE /\ infos' = [infos EXCEPT ![i].isConnecting = FALSE]
            /\ UNCHANGED <<clients, creds>>
    /\ UNCHANGED <<groupReqs, taskVars, build, now, activeClients, reqs, reconnectTimers, openPending>>

\* --------------------------------------------------- POST /delete-session
DeleteOutcome(sid, ownerId) ==
    IF build = "simple" THEN "no-route"
    ELSE IF ownerId = NoOwner THEN "owner-required"
    ELSE IF ~Has(sid) THEN "not-found"
    ELSE IF infos[activeClients[sid]].ownerId # ownerId THEN "access-denied"
    ELSE "deleted"

\* client.end() on a sessionInfo's socket, if it has one.
EndClientOf(cs, inf) ==
    IF inf.client = 0 THEN cs ELSE [cs EXCEPT ![inf.client].phase = "closed"]

DeleteSession(sid, ownerId) ==
    /\ DeleteOutcome(sid, ownerId) = "deleted"
    /\ clients' = EndClientOf(clients, infos[activeClients[sid]])
    /\ creds' = [creds EXCEPT ![sid] = "none"]
    /\ activeClients' = [activeClients EXCEPT ![sid] = 0]
    /\ UNCHANGED <<groupReqs, taskVars, build, now, infos, reqs, reconnectTimers, initPending, openPending>>

\* -------------------------------------------------- POST /cleanup-session
\* sessionId = "all": the sessions of ownerId, or every session when no
\* ownerId is given (index.js never looks at ownerId).
CleanupTargets(ownerId) ==
    {sid \in SessionIds : Has(sid) /\
        (build = "simple" \/ ownerId = NoOwner \/ infos[activeClients[sid]].ownerId = ownerId)}

RECURSIVE EndAll(_, _)
EndAll(cs, sids) ==
    IF sids = {} THEN cs
    ELSE LET sid == CHOOSE x \in sids : TRUE
         IN  EndAll(EndClientOf(cs, infos[activeClients[sid]]), sids \ {sid})

CleanupSession(ownerId) ==
    /\ CleanupTargets(ownerId) # {}
    /\ clients' = EndAll(clients, CleanupTargets(ownerId))
    /\ activeClients' = [sid \in SessionIds |->
                            IF sid \in CleanupTargets(ownerId) THEN 0 ELSE activeClients[sid]]
    /\ UNCHANGED <<groupReqs, taskVars, build, now, creds, infos, reqs, reconnectTimers, initPending, openPending>>

\* ----------------------------------------------------- POST /send-message
\* The delaySec form field as the handler receives it: a string, "" when the
\* field is missing.
Delays == {"0", "1", "-1", "abc"}

\* parseFloat(delaySec), in seconds: NaN for a string that starts with no number.
ParseFloat(delaySec) ==
    CASE delaySec = "0" -> [nan |-> FALSE, val |-> 0]
      [] delaySec = "1" -> [nan |-> FALSE, val |-> 1]
      [] delaySec = "2" -> [nan |-> FALSE, val |-> 2]
      [] delaySec = "-1" -> [nan |-> FALSE, val |-> 0 - 1]
      [] OTHER -> [nan |-> TRUE, val |-> 0]

\* The waits of one second the pacing loop makes,
\* `for (t = 0; t < Math.ceil(parseFloat(delaySec) * 1000 / 1000) && ...; t++)`:
\* none when the bound is NaN or negative, for `t < chunks` is then false.
Chunks(delaySec) ==
    IF ParseFloat(delaySec).nan \/ ParseFloat(delaySec).val < 0 THEN 0
    ELSE ParseFloat(delaySec).val

\* The handler's checks in the order the code makes them.  hasTarget: a
\* target (or a groupId for a group) was given; n: the non-empty lines of the
\* uploaded file.
SendOutcome(sid, ownerId, hasTarget, n, delaySec) ==
    IF sid \notin SessionIds \/ ~Has(sid) THEN "invalid-session"
    ELSE LET inf == infos[activeClients[sid]]
         IN  IF build = "groups" /\ ownerId # NoOwner /\ inf.ownerId # ownerId
                 THEN "access-denied"
             ELSE IF ~inf.registered \/ inf.isConnecting THEN "not-ready"
             ELSE IF inf.client = 0 THEN "lazy"
             ELSE IF ~hasTarget \/ delaySec = "" THEN "missing-fields"
             ELSE IF n = 0 THEN "invalid-file"
             ELSE "accepted"

\* The owner recorded on the task.
TaskOwner(ownerId, inf) ==
    IF ownerId # NoOwner THEN ownerId
    ELSE IF build = "groups" THEN inf.ownerId ELSE DefaultUser

PhaseOf(c) == IF c = 0 THEN "none" ELSE clients[c].phase

\* The taskInfo object, with the loop entered: the first sendMessage is
\* called before the handler returns.
NewTask(sid, i, ownerId, n, delaySec, t, phase) ==
    [taskId |-> t, sessionId |-> sid, ownerId |-> TaskOwner(ownerId, infos[i]),
     isSending |-> TRUE, stopRequested |-> FALSE, totalMessages |-> n,
     sentMessages |-> 0, failed |-> 0, error |-> "none",
     endTime |-> 0, endedBy |-> "none", client |-> infos[i].client,
     startPhase |-> phase,
     index |-> 0, chunks |-> Chunks(delaySec), waited |-> 0, pc |-> "sending",
     purge |-> FALSE, file |-> TRUE]

SendMessage(sid, ownerId, n, delaySec, t) ==
    /\ SendOutcome(sid, ownerId, TRUE, n, delaySec) = "accepted"
    /\ Len(tasks) < MaxTasks
    /\ t \in Later
    /\ now' = t
    /\ tasks' = Append(tasks, NewTask(sid, activeClients[sid], ownerId, n, delaySec, t,
                                      PhaseOf(infos[activeClients[sid]].client)))
    /\ activeTasks' = [activeTasks EXCEPT ![t] = Len(tasks) + 1]
    /\ UNCHANGED <<build, sessVars, groupReqs, sends>>

\* The request is rejected by one of the handler's checks: the uploaded file
\* is deleted and the error returned, with no other write.
SendRefused(sid, ownerId, hasTarget, n, delaySec) ==
    /\ SendOutcome(sid, ownerId, hasTarget, n, delaySec) \notin {"accepted", "lazy"}
    /\ Len(sends) + Len(tasks) < MaxTasks
    /\ sends' = Append(sends, [sid |-> sid, info |-> 0, ownerId |-> ownerId,
                               hasTarget |-> hasTarget, n |-> n, delaySec |-> delaySec,
                               pc |-> "done", client |-> 0,
                               resp |-> SendOutcome(sid, ownerId, hasTarget, n, delaySec),
                               file |-> "deleted"])
    /\ UNCHANGED <<build, now, sessVars, groupReqs, tasks, activeTasks>>

\* !sessionInfo.client && sessionInfo.registered: the handler suspends at
\* `await useMultiFileAuthState` before it makes a socket of its own.
SendLazy(sid, ownerId, hasTarget, n, delaySec) ==
    /\ SendOutcome(sid, ownerId, hasTarget, n, delaySec) = "lazy"
    /\ Len(sends) + Len(tasks) < MaxTasks
    /\ sends' = Append(sends, [sid |-> sid, info |-> activeClients[sid], ownerId |-> ownerId,
                               hasTarget |-> hasTarget, n |-> n, delaySec |-> delaySec,
                               pc |-> "auth", client |-> 0, resp |-> "none",
                               file |-> "held"])
    /\ UNCHANGED <<build, now, sessVars, groupReqs, tasks, activeTasks>>

\* makeWASocket in the handler: the socket is stored on the sessionInfo and
\* the handler waits for its "open"; a throw answers 400.
SendLazySocket(s, ok) ==
    LET sd == sends[s]
    IN  /\ sd.pc = "auth"
        /\ IF ok
           THEN /\ Len(clients) < MaxClients
                /\ clients' = Append(clients, NewClient(infos[sd.info].sid, sd.info, "lazy", s))
                /\ infos' = [infos EXCEPT ![sd.info].client = Len(clients) + 1]
                /\ sends' = [sends EXCEPT ![s].pc = "open", ![s].client = Len(clients) + 1]
                /\ creds' = AuthStateLoaded(creds, infos[sd.info].sid)
           ELSE /\ sends' = [sends EXCEPT ![s].pc = "done", ![s].resp = "init-failed",
                                         ![s].file = "deleted"]
                /\ UNCHANGED <<clients, infos, creds>>
        /\ UNCHANGED <<build, now, activeClients, reqs, reconnectTimers, initPending,
                       openPending, groupReqs, tasks, activeTasks>>

\* "open" on the handler's socket resumes the handler at its field checks.
SendLazyOpen(c, t) ==
    LET cl == clients[c]
        s == cl.req
        sd == sends[s]
        out == IF ~sd.hasTarget \/ sd.delaySec = "" THEN "missing-fields"
               ELSE IF sd.n = 0 THEN "invalid-file" ELSE "accepted"
    IN  /\ cl.kind = "lazy" /\ cl.phase = "connecting"
        /\ clients' = [clients EXCEPT ![c].phase = "open"]
        /\ creds' = [creds EXCEPT ![cl.sid] = IF @ = "none" THEN @ ELSE "registered"]
        /\ sends' = [sends EXCEPT ![s].pc = "done", ![s].resp = out,
                                  ![s].file = IF out = "accepted" THEN "task" ELSE "deleted"]
        /\ t \in Later /\ (out # "accepted" => t = now)
        /\ now' = t
        /\ IF out = "accepted"
           THEN /\ Len(tasks) < MaxTasks
                /\ tasks' = Append(tasks, NewTask(sd.sid, sd.info, sd.ownerId, sd.n,
                                                  sd.delaySec, t,
                                                  IF infos[sd.info].client = c THEN "open"
                                                  ELSE PhaseOf(infos[sd.info].client)))
                /\ activeTasks' = [activeTasks EXCEPT ![t] = Len(tasks) + 1]
           ELSE UNCHANGED <<tasks, activeTasks>>
        /\ UNCHANGED <<build, activeClients, infos, reqs, reconnectTimers, initPending,
                       openPending, groupReqs>>

\* "close" on the handler's socket: the handler listens for "open" only.
SendLazyClose(c) ==
    /\ clients[c].kind = "lazy" /\ IsLive(c)
    /\ clients' = [clients EXCEPT ![c].phase = "closed"]
    /\ UNCHANGED <<build, now, creds, activeClients, infos, reqs, reconnectTimers,
                   initPending, openPending, groupReqs, taskVars>>

\* ------------------------------------------------------- the dispatch loop
\* Finally with the cancel flag reset as the loop unwinds.
FinallyClearsFlag(tk, t) ==
    [tk EXCEPT !.endTime = t, !.isSending = FALSE, !.pc = "done", !.purge = TRUE,
               !.file = FALSE, !.stopRequested = FALSE]

\* Finally without `taskInfo.isSending = false`.
FinallyKeepsSending(tk, t) ==
    [tk EXCEPT !.endTime = t, !.pc = "done", !.purge = TRUE, !.file = FALSE]

\* Finally without the setTimeout that removes the task from the registry.
FinallyNoPurge(tk, t) ==
    [tk EXCEPT !.endTime = t, !.isSending = FALSE, !.pc = "done", !.file = FALSE]

\* finally: the loop is over and the uploaded file is deleted.
Finally(tk, t) ==
    [tk EXCEPT !.endTime = t, !.isSending = FALSE, !.pc = "done", !.purge = TRUE,
               !.file = FALSE]

\* NextItem with the loop condition off by one (index <= messages.length).
NextItemOffByOne(tk, t) ==
    IF tk.stopRequested THEN Finally(tk, t)
    ELSE IF tk.index + 1 <= tk.totalMessages
         THEN [tk EXCEPT !.index = @ + 1, !.pc = "sending"]
         ELSE Finally([tk EXCEPT !.index = @ + 1], t)

\* NextItem with the index left where it was: the item is sent again.
NextItemNoAdvance(tk, t) ==
    IF tk.stopRequested THEN Finally(tk, t)
    ELSE IF tk.index + 1 < tk.totalMessages
         THEN [tk EXCEPT !.pc = "sending"]
         ELSE Finally([tk EXCEPT !.index = @ + 1], t)

\* NextItem without `if (taskInfo.stopRequested) break` and without the
\* `!taskInfo.stopRequested` of the loop condition.
NextItemIgnoresStop(tk, t) ==
    IF tk.index + 1 < tk.totalMessages
    THEN [tk EXCEPT !.index = @ + 1, !.pc = "sending"]
    ELSE Finally([tk EXCEPT !.index = @ + 1], t)

\* NextItem with the loop ending one item early (index < messages.length - 1).
NextItemStopsShort(tk, t) ==
    IF tk.stopRequested THEN Finally(tk, t)
    ELSE IF tk.index + 1 < tk.totalMessages - 1
         THEN [tk EXCEPT !.index = @ + 1, !.pc = "sending"]
         ELSE Finally([tk EXCEPT !.index = @ + 1], t)

\* After the pacing wait: `if (stopRequested) break`, index++, the loop
\* condition, and either the next sendMessage or the finally block.
NextItem(tk, t) ==
    IF tk.stopRequested THEN Finally(tk, t)
    ELSE IF tk.index + 1 < tk.totalMessages
         THEN [tk EXCEPT !.index = @ + 1, !.pc = "sending"]
         ELSE Finally([tk EXCEPT !.index = @ + 1], t)

\* Pace without `&& !taskInfo.stopRequested` in the condition of the wait.
PaceWholeDelay(tk, t) ==
    IF tk.waited < tk.chunks
    THEN [tk EXCEPT !.pc = "delay"]
    ELSE NextItem([tk EXCEPT !.waited = 0], t)

\* The pacing loop `for (t = 0; t < chunks && !stopRequested; t++) await delay(1000)`
\* entered with `waited` chunks behind it.
Pace(tk, t) ==
    IF tk.waited < tk.chunks /\ ~tk.stopRequested
    THEN [tk EXCEPT !.pc = "delay"]
    ELSE NextItem([tk EXCEPT !.waited = 0], t)

\* Sent with the transport error treated like any other send error.
SentNoFatalStop(tk, res) ==
    CASE res = "ok" -> [tk EXCEPT !.sentMessages = @ + 1]
      [] res = "err" -> [tk EXCEPT !.failed = @ + 1, !.error = "err"]
      [] OTHER -> [tk EXCEPT !.failed = @ + 1, !.error = "disconnected"]

\* Sent with every send error treated as a transport failure.
SentAnyErrorFatal(tk, res) ==
    CASE res = "ok" -> [tk EXCEPT !.sentMessages = @ + 1]
      [] res = "err" -> [tk EXCEPT !.failed = @ + 1, !.error = "err",
                                   !.stopRequested = TRUE]
      [] OTHER -> [tk EXCEPT !.failed = @ + 1, !.error = "disconnected",
                             !.stopRequested = TRUE]

\* What the loop body writes when sendMessage returns: "ok", an error
\* ("err"), or an error whose message has "closed" or "disconnected" in it.
Sent(tk, res) ==
    CASE res = "ok" -> [tk EXCEPT !.sentMessages = @ + 1]
      [] res = "err" -> [tk EXCEPT !.failed = @ + 1, !.error = "err"]
      [] OTHER -> [tk EXCEPT !.failed = @ + 1, !.error = "disconnected",
                             !.stopRequested = TRUE]

\* The loop sending on whatever socket the registered handle holds now.
SendClientOfSession(tk) ==
    IF Has(tk.sessionId) THEN infos[activeClients[tk.sessionId]].client ELSE 0

\* The socket the loop sends on: `waClient`, a const bound from
\* sessionInfo.client before the task was registered.
SendClient(tk) == tk.client

\* `await waClient.sendMessage` returned.  The clock reading t is the one the
\* finally block records, when the loop ends here.
SendReturn(k, res, t) ==
    LET tk == tasks[k]
    IN  /\ tk.pc = "sending"
        /\ res = "ok" => PhaseOf(SendClient(tk)) = "open"
        /\ t \in Later /\ (Pace(Sent(tk, res), t).pc # "done" => t = now)
        /\ now' = t
        /\ tasks' = [tasks EXCEPT ![k] = Pace(Sent(tk, res), t)]
        /\ UNCHANGED <<build, sessVars, groupReqs, sends, activeTasks>>

\* `await delay(1000)` returned.
DelayReturn(k, t) ==
    LET tk == tasks[k]
    IN  /\ tk.pc = "delay"
        /\ t \in Later /\ (Pace([tk EXCEPT !.waited = @ + 1], t).pc # "done" => t = now)
        /\ now' = t
        /\ tasks' = [tasks EXCEPT ![k] = Pace([tk EXCEPT !.waited = @ + 1], t)]
        /\ UNCHANGED <<build, sessVars, groupReqs, sends, activeTasks>>

\* The 10 minute timer set in the finally block.
Purge(k) ==
    /\ tasks[k].purge
    /\ tasks' = [tasks EXCEPT ![k].purge = FALSE]
    /\ activeTasks' = [activeTasks EXCEPT ![tasks[k].taskId] = 0]
    /\ UNCHANGED <<build, now, sessVars, groupReqs, sends>>

\* --------------------------------------------------------- POST /stop-task
NoTask == 0

\* StopOutcome without the `!taskInfo.isSending` early return.
StopOutcomeNoEndedCheck(taskId, ownerId) ==
    IF taskId = NoTask THEN "task-required"
    ELSE IF activeTasks[taskId] = 0 THEN "not-found"
    ELSE LET tk == tasks[activeTasks[taskId]]
         IN  IF build = "groups" /\ ownerId # NoOwner /\ tk.ownerId # ownerId
                 THEN "access-denied"
             ELSE "stopped"

StopOutcome(taskId, ownerId) ==
    IF taskId = NoTask THEN "task-required"
    ELSE IF activeTasks[taskId] = 0 THEN "not-found"
    ELSE LET tk == tasks[activeTasks[taskId]]
         IN  IF build = "groups" /\ ownerId # NoOwner /\ tk.ownerId # ownerId
                 THEN "access-denied"
             ELSE IF ~tk.isSending THEN "already-ended"
             ELSE "stopped"

\* Stopped with the status left for the loop to publish.
StoppedFlagOnly(tk, t) ==
    [tk EXCEPT !.stopRequested = TRUE, !.endTime = t, !.endedBy = "user"]

\* Stopped without `taskInfo.stopRequested = true`.
StoppedNoFlag(tk, t) ==
    [tk EXCEPT !.isSending = FALSE, !.endTime = t, !.endedBy = "user"]

\* What the handler writes on a task that is sending.
Stopped(tk, t) ==
    [tk EXCEPT !.stopRequested = TRUE, !.isSending = FALSE, !.endTime = t,
               !.endedBy = "user"]

\* The handler: every outcome but "stopped" returns before any write.
StopTask(taskId, ownerId, t) ==
    /\ t \in Later /\ (StopOutcome(taskId, ownerId) # "stopped" => t = now)
    /\ now' = t
    /\ tasks' = IF StopOutcome(taskId, ownerId) = "stopped"
                THEN [tasks EXCEPT ![activeTasks[taskId]] = Stopped(@, t)]
                ELSE tasks
    /\ UNCHANGED <<build, sessVars, groupReqs, sends, activeTasks>>

\* ------------------------------------------- GET /task-status, /user-tasks
\* The status /task-status reports.
StatusOf(tk) ==
    IF tk.isSending THEN "sending" ELSE IF tk.stopRequested THEN "stopped" ELSE "completed"

TaskStatus(taskId, ownerId) ==
    IF taskId = NoTask THEN [code |-> "task-required"]
    ELSE IF activeTasks[taskId] = 0 THEN [code |-> "not-found"]
    ELSE LET tk == tasks[activeTasks[taskId]]
         IN  IF build = "groups" /\ ownerId # NoOwner /\ tk.ownerId # ownerId
                 THEN [code |-> "access-denied"]
             ELSE [code |-> "ok", task |-> activeTasks[taskId], status |-> StatusOf(tk),
                   sentMessages |-> tk.sentMessages, totalMessages |-> tk.totalMessages]

\* The tasks a listing shows: /user-tasks of part_000 (ownerId required) and
\* /tasks of index.js (every task).
UserTasks(ownerId) ==
    IF build = "simple" THEN {activeTasks[id] : id \in {x \in Readings : activeTasks[x] # 0}}
    ELSE IF ownerId = NoOwner THEN {}
    ELSE {activeTasks[id] : id \in {x \in Readings : activeTasks[x] # 0 /\
                                        tasks[activeTasks[x]].ownerId = ownerId}}

\* --------------------------------------------- GET /user-sessions, /status
\* The sessions a listing shows: /user-sessions of part_000 (ownerId
\* required) and /status of index.js (every session when no ownerId is given).
UserSessions(ownerId) ==
    IF ownerId = NoOwner
    THEN IF build = "simple" THEN {sid \in SessionIds : Has(sid)} ELSE {}
    ELSE {sid \in SessionIds : Has(sid) /\ infos[activeClients[sid]].ownerId = ownerId}

\* ---------------------------------------- GET /groups, POST /refresh-groups
\* The handler's checks in order; t is the reading of Date.now() the
\* freshness test makes.
GroupsOutcome(sid, ownerId, refresh, t) ==
    IF build = "simple" THEN "no-route"
    ELSE IF ownerId = NoOwner THEN "owner-required"
    ELSE IF ~Has(sid) THEN "not-found"
    ELSE LET inf == infos[activeClients[sid]]
         IN  IF inf.ownerId # ownerId THEN "access-denied"
             ELSE IF ~inf.registered \/ inf.isConnecting THEN "not-ready"
             ELSE IF ~refresh /\ inf.groups # "null" /\ inf.groupsLastFetched # 0
                     /\ inf.groupsLastFetched > t - GroupsTTL THEN "cached"
             ELSE IF inf.client = 0 THEN "no-client"
             ELSE "fetch"

\* The handler calls groupFetchAllParticipating and suspends; the refresh
\* clears the cache first.
GroupsRequest(sid, ownerId, refresh, t) ==
    LET i == activeClients[sid]
    IN  /\ GroupsOutcome(sid, ownerId, refresh, t) = "fetch"
        /\ Cardinality(groupReqs) < MaxFetches
        /\ t \in Later /\ (refresh => t = now)
        /\ now' = t
        /\ groupReqs' = groupReqs \cup {[info |-> i, client |-> infos[i].client,
                                         refresh |-> refresh]}
        /\ infos' = IF refresh
                    THEN [infos EXCEPT ![i].groups = "null", ![i].groupsLastFetched = 0]
                    ELSE infos
        /\ UNCHANGED <<build, creds, activeClients, clients, reqs, reconnectTimers,
                       initPending, openPending, taskVars>>

\* The listing returned ("list", or "empty" for an account without groups)
\* or threw ("fail").
GroupsListed(g, res, t) ==
    /\ g \in groupReqs
    /\ res # "fail" => PhaseOf(g.client) = "open"
    /\ t \in Later /\ (res = "fail" => t = now)
    /\ now' = t
    /\ groupReqs' = groupReqs \ {g}
    /\ infos' = IF res = "fail" THEN infos
                ELSE [infos EXCEPT ![g.info].groups = res, ![g.info].groupsLastFetched = t]
    /\ UNCHANGED <<build, creds, activeClients, clients, reqs, reconnectTimers,
                   initPending, openPending, taskVars>>

\* ------------------------------------------------------------------ Next
ReqOwners == Owners \cup {NoOwner}

Next ==
    \/ \E num \in Nums, o \in ReqOwners : CodeRequest(num, o)
    \/ \E num \in Nums, o \in ReqOwners : CodeRefused(num, o)
    \/ \E r \in 1..Len(reqs) : CodeAuthFail(r)
    \/ \E r \in 1..Len(reqs) : CodeStored(r)
    \/ \E r \in 1..Len(reqs), ok \in BOOLEAN, t \in Readings : CodeStoredListed(r, ok, t)
    \/ \E r \in 1..Len(reqs) : CodePair(r)
    \/ \E r \in 1..Len(reqs) : ConnectionTimeout(r)
    \/ \E r \in 1..Len(reqs), got \in BOOLEAN : DirectPairing(r, got)
    \/ \E c \in 1..Len(clients), got \in BOOLEAN : Qr(c, got)
    \/ \E c \in 1..Len(clients) : Open(c)
    \/ \E c \in 1..Len(clients), ok \in BOOLEAN, t \in Readings : OpenListed(c, ok, t)
    \/ \E c \in 1..Len(clients), auth \in BOOLEAN : Close(c, auth)
    \/ \E i \in 1..Len(infos) : ReconnectTimer(i)
    \/ \E i \in 1..Len(infos), ok \in BOOLEAN : InitializeClient(i, ok)
    \/ \E sid \in SessionIds, o \in ReqOwners : DeleteSession(sid, o)
    \/ \E o \in ReqOwners : CleanupSession(o)
    \/ \E sid \in SessionIds, o \in ReqOwners, refresh \in BOOLEAN, t \in Readings :
          GroupsRequest(sid, o, refresh, t)
    \/ \E g \in groupReqs, res \in {"list", "empty", "fail"}, t \in Readings :
          GroupsListed(g, res, t)
    \/ \E sid \in SessionIds, o \in ReqOwners, n \in 0..MaxItems, d \in Delays,
          t \in Readings : SendMessage(sid, o, n, d, t)
    \/ \E sid \in SessionIds, o \in ReqOwners, n \in 0..MaxItems, d \in Delays :
          SendLazy(sid, o, TRUE, n, d)
    \/ \E sid \in SessionIds, o \in ReqOwners, hasTarget \in BOOLEAN, n \in 0..MaxItems,
          d \in Delays \cup {""} : SendRefused(sid, o, hasTarget, n, d)
    \/ \E s \in 1..Len(sends), ok \in BOOLEAN : SendLazySocket(s, ok)
    \/ \E c \in 1..Len(clients), t \in Readings : SendLazyOpen(c, t)
    \/ \E c \in 1..Len(clients) : SendLazyClose(c)
    \/ \E k \in 1..Len(tasks), res \in {"ok", "err", "closed"}, t \in Readings :
          SendReturn(k, res, t)
    \/ \E k \in 1..Len(tasks), t \in Readings : DelayReturn(k, t)
    \/ \E k \in 1..Len(tasks) : Purge(k)
    \/ \E id \in Readings \cup {NoTask}, o \in ReqOwners, t \in Readings : StopTask(id, o, t)

Spec == Init /\ [][Next]_vars

\* The session lifecycle of one (number, owner) pair on its own: attach, the
\* socket's events, the reconnect timer, the lazy socket of /send-message,
\* delete and cleanup.  The clock stands still and an accepted task is not run.
NextAttach ==
    \/ \E num \in Nums : CodeRequest(num, "u1")
    \/ \E r \in 1..Len(reqs) : CodeAuthFail(r)
    \/ \E r \in 1..Len(reqs) :
          (build = "groups" => Len(clients) < MaxAttachClients) /\ CodeStored(r)
    \/ \E r \in 1..Len(reqs), ok \in BOOLEAN : CodeStoredListed(r, ok, now)
    \/ \E r \in 1..Len(reqs) : Len(clients) < MaxAttachClients /\ CodePair(r)
    \/ \E r \in 1..Len(reqs) : ConnectionTimeout(r)
    \/ \E r \in 1..Len(reqs) : DirectPairing(r, TRUE)
    \/ \E c \in 1..Len(clients), got \in BOOLEAN : Qr(c, got)
    \/ \E c \in 1..Len(clients) : Open(c)
    \/ \E c \in 1..Len(clients), ok \in BOOLEAN : OpenListed(c, ok, now)
    \/ \E c \in 1..Len(clients), auth \in BOOLEAN : Close(c, auth)
    \/ \E i \in 1..Len(infos) : ReconnectTimer(i)
    \/ \E i \in 1..Len(infos), ok \in BOOLEAN :
          (ok => Len(clients) < MaxAttachClients) /\ InitializeClient(i, ok)
    \/ \E sid \in SessionIds, o \in ReqOwners : DeleteSession(sid, o)
    \/ \E o \in ReqOwners : CleanupSession(o)
    \/ \E sid \in SessionIds, o \in ReqOwners : SendLazy(sid, o, TRUE, 1, "0")
    \/ \E s \in 1..Len(sends), ok \in BOOLEAN :
          (ok => Len(clients) < MaxAttachClients) /\ SendLazySocket(s, ok)
    \/ \E c \in 1..Len(clients) : SendLazyOpen(c, now)
    \/ \E c \in 1..Len(clients) : SendLazyClose(c)

SpecAttach == Init /\ [][NextAttach]_vars

\* The clock readings of the first stretch.
Epoch0 == {t \in Readings : t <= 1 + MaxMs}

\* The dispatch engine on one session: one attach, its connect and transport
\* drop, tasks started by the session's owner, and every other task action by
\* every requester, within one stretch of the clock.
NextTask ==
    \/ \E num \in Nums : reqs = <<>> /\ CodeRequest(num, "u1")
    \/ \E r \in 1..Len(reqs) : CodePair(r)
    \/ \E c \in 1..Len(clients) : Open(c)
    \/ \E c \in 1..Len(clients) : OpenListed(c, TRUE, now)
    \/ \E c \in 1..Len(clients) : Close(c, FALSE)
    \/ \E sid \in SessionIds, n \in 0..MaxItems, d \in Delays, t \in Epoch0 :
          SendMessage(sid, "u1", n, d, t)
    \/ \E k \in 1..Len(tasks), res \in {"ok", "err", "closed"}, t \in Epoch0 :
          SendReturn(k, res, t)
    \/ \E k \in 1..Len(tasks), t \in Epoch0 : DelayReturn(k, t)
    \/ \E k \in 1..Len(tasks) : Purge(k)
    \/ \E id \in Epoch0 \cup {NoTask}, o \in ReqOwners, t \in Epoch0 : StopTask(id, o, t)

SpecTask == Init /\ [][NextTask]_vars

\* One session through transport drops and rejections: one attach, the
\* socket's events, the reconnect timer and initializeClient, and the
\* owner's delete.  The clock stands still.
NextReconnect ==
    \/ \E num \in Nums : reqs = <<>> /\ CodeRequest(num, "u1")
    \/ \E r \in 1..Len(reqs) : CodePair(r)
    \/ \E r \in 1..Len(reqs) : ConnectionTimeout(r)
    \/ \E r \in 1..Len(reqs) : DirectPairing(r, TRUE)
    \/ \E c \in 1..Len(clients) : Open(c)
    \/ \E c \in 1..Len(clients), ok \in BOOLEAN : OpenListed(c, ok, now)
    \/ \E c \in 1..Len(clients), auth \in BOOLEAN : Close(c, auth)
    \/ \E i \in 1..Len(infos) : ReconnectTimer(i)
    \/ \E i \in 1..Len(infos), ok \in BOOLEAN : InitializeClient(i, ok)
    \/ \E sid \in SessionIds : DeleteSession(sid, "u1")

SpecReconnect == Init /\ [][NextReconnect]_vars

\* The group directory of one session over two cache lifetimes: one attach,
\* its connect, transport drops and reconnects with the listing made at each
\* connect, and /groups and /refresh-groups by every requester.
NextGroups ==
    \/ \E num \in Nums : reqs = <<>> /\ CodeRequest(num, "u1")
    \/ \E r \in 1..Len(reqs) : CodePair(r)
    \/ \E c \in 1..Len(clients) : Open(c)
    \/ \E c \in 1..Len(clients), ok \in BOOLEAN, t \in Readings : OpenListed(c, ok, t)
    \/ \E c \in 1..Len(clients) : Close(c, FALSE)
    \/ \E i \in 1..Len(infos) : ReconnectTimer(i)
    \/ \E i \in 1..Len(infos) : InitializeClient(i, TRUE)
    \/ \E sid \in SessionIds, o \in ReqOwners, refresh \in BOOLEAN, t \in Readings :
          GroupsRequest(sid, o, refresh, t)
    \/ \E g \in groupReqs, res \in {"list", "empty", "fail"}, t \in Readings :
          GroupsListed(g, res, t)

SpecGroups == Init /\ [][NextGroups]_vars

\* Tasks left to run: one session that connects and stays connected, starts
\* with at least one message and a delay that is a number and not negative,
\* every sendMessage resolving, and no stop request.
NextRun ==
    \/ \E num \in Nums : reqs = <<>> /\ CodeRequest(num, "u1")
    \/ \E r \in 1..Len(reqs) : CodePair(r)
    \/ \E c \in 1..Len(clients) : Open(c)
    \/ \E c \in 1..Len(clients) : OpenListed(c, TRUE, now)
    \/ \E sid \in SessionIds, n \in 1..MaxItems, d \in {"0", "1"}, t \in Epoch0 :
          SendMessage(sid, "u1", n, d, t)
    \/ \E k \in 1..Len(tasks), t \in Epoch0 : SendReturn(k, "ok", t)
    \/ \E k \in 1..Len(tasks), t \in Epoch0 : DelayReturn(k, t)
    \/ \E k \in 1..Len(tasks) : Purge(k)

\* The loop of task k resumes once the promise it awaits has settled: a
\* resolved sendMessage, or the 1 s timer of the pacing wait.
LoopStep(k) ==
    /\ k \in 1..Len(tasks)
    /\ \E t \in Epoch0 : SendReturn(k, "ok", t) \/ DelayReturn(k, t)

SpecRun == Init /\ [][NextRun]_vars /\ \A k \in 1..MaxTasks : WF_vars(LoopStep(k))

\* The delay of the retention timer set in the finally block, in ms.
Retention == 600000

\* The retention timer of task k has fired.
Purged(k) == tasks[k].pc = "done" /\ ~tasks[k].purge

\* Tasks from start to purge on one session that connects and stays
\* connected: starts with no delay or with a delay of two seconds, every
\* outcome of sendMessage, stop requests by the owner, and the retention
\* timers.  A retention timer fires Retention ms after the clock reading its
\* finally block recorded, so a start that follows it reads a later clock.
NextLoop ==
    \/ \E num \in Nums : reqs = <<>> /\ CodeRequest(num, "u1")
    \/ \E r \in 1..Len(reqs) : CodePair(r)
    \/ \E c \in 1..Len(clients) : Open(c)
    \/ \E c \in 1..Len(clients) : OpenListed(c, TRUE, now)
    \/ \E sid \in SessionIds, n \in 1..MaxItems, d \in {"0", "2"}, t \in Epoch0 :
          /\ \A k \in 1..Len(tasks) : Purged(k) => t >= tasks[k].endTime + Retention
          /\ SendMessage(sid, "u1", n, d, t)
    \/ \E k \in 1..Len(tasks), res \in {"ok", "err", "closed"}, t \in Epoch0 :
          SendReturn(k, res, t)
    \/ \E k \in 1..Len(tasks), t \in Epoch0 : DelayReturn(k, t)
    \/ \E k \in 1..Len(tasks) : Purge(k)
    \/ \E id \in Epoch0, t \in Epoch0 : StopTask(id, "u1", t)

\* The loop of task k resumes once the promise it awaits has settled, however
\* sendMessage settles.
LoopResume(k) ==
    /\ k \in 1..Len(tasks)
    /\ \E t \in Epoch0 :
          \/ \E res \in {"ok", "err", "closed"} : SendReturn(k, res, t)
          \/ DelayReturn(k, t)

\* The retention timer of task k, once set, fires.
RetentionTimer(k) == k \in 1..Len(tasks) /\ Purge(k)

SpecLoop ==
    /\ Init /\ [][NextLoop]_vars
    /\ \A k \in 1..MaxTasks : WF_vars(LoopResume(k)) /\ WF_vars(RetentionTimer(k))

\* Attach requests from arrival to answer: the /code handler on one pair,
\* its timers, and the events of the sockets it makes.  The clock stands
\* still.
NextAnswer ==
    \/ \E num \in Nums : (\A r \in 1..Len(reqs) : reqs[r].num = num) /\ CodeRequest(num, "u1")
    \/ \E num \in Nums, o \in ReqOwners : CodeRefused(num, o)
    \/ \E r \in 1..Len(reqs) : CodeAuthFail(r)
    \/ \E r \in 1..Len(reqs) : CodeStored(r)
    \/ \E r \in 1..Len(reqs), ok \in BOOLEAN : CodeStoredListed(r, ok, now)
    \/ \E r \in 1..Len(reqs) : CodePair(r)
    \/ \E r \in 1..Len(reqs) : ConnectionTimeout(r)
    \/ \E r \in 1..Len(reqs), got \in BOOLEAN : DirectPairing(r, got)
    \/ \E c \in 1..Len(clients), got \in BOOLEAN : Qr(c, got)
    \/ \E c \in 1..Len(clients) : Open(c)
    \/ \E c \in 1..Len(clients), ok \in BOOLEAN : OpenListed(c, ok, now)
    \/ \E c \in 1..Len(clients), auth \in BOOLEAN : Close(c, auth)

\* The handler of request r resumes once the promise it awaits has settled.
HandlerResume(r) ==
    /\ r \in 1..Len(reqs)
    /\ \/ CodeAuthFail(r) \/ CodeStored(r) \/ CodePair(r)
       \/ \E ok \in BOOLEAN : CodeStoredListed(r, ok, now)

\* The 120 s timer of request r, while it is set, fires.
TimeoutTimer(r) == r \in 1..Len(reqs) /\ ConnectionTimeout(r)

SpecAnswer ==
    /\ Init /\ [][NextAnswer]_vars
    /\ \A r \in 1..MaxReqs : WF_vars(HandlerResume(r)) /\ WF_vars(TimeoutTimer(r))

\* Start requests on a session registered from stored credentials, which has
\* no socket: a pairing that connects and is rejected with 401, a second
\* attach that finds the credentials, /send-message making a socket of its
\* own or rejecting the request, and the loops of the tasks it starts.  The
\* clock stands still.
NextLazy ==
    \/ \E num \in Nums : CodeRequest(num, "u1")
    \/ \E r \in 1..Len(reqs) : CodePair(r)
    \/ \E c \in 1..Len(clients) : Open(c)
    \/ \E c \in 1..Len(clients) : OpenListed(c, TRUE, now)
    \/ \E c \in 1..Len(clients) : Close(c, TRUE)
    \/ \E r \in 1..Len(reqs) : CodeStored(r)
    \/ \E r \in 1..Len(reqs), ok \in BOOLEAN : CodeStoredListed(r, ok, now)
    \/ \E sid \in SessionIds, hasTarget \in BOOLEAN, n \in 0..1 :
          SendLazy(sid, "u1", hasTarget, n, "0")
    \/ \E s \in 1..Len(sends), ok \in BOOLEAN : SendLazySocket(s, ok)
    \/ \E c \in 1..Len(clients) : SendLazyOpen(c, now)
    \/ \E c \in 1..Len(clients) : SendLazyClose(c)
    \/ \E sid \in SessionIds, o \in {"u1", "u2"}, hasTarget \in BOOLEAN, n \in 0..1 :
          SendRefused(sid, o, hasTarget, n, "0")
    \/ \E k \in 1..Len(tasks), res \in {"ok", "err", "closed"} : SendReturn(k, res, now)

\* The /send-message handler of request s resumes from its own awaits.
SendResume(s) ==
    /\ s \in 1..Len(sends)
    /\ \E ok \in BOOLEAN : SendLazySocket(s, ok)

\* The socket c made by /send-message gets to "open" or to "close".
LazySocketEvent(c) ==
    /\ c \in 1..Len(clients)
    /\ SendLazyOpen(c, now) \/ SendLazyClose(c)

SpecLazy ==
    /\ Init /\ [][NextLazy]_vars
    /\ \A s \in 1..MaxTasks : WF_vars(SendResume(s))
    /\ \A k \in 1..MaxTasks : WF_vars(LoopResume(k))
    /\ \A c \in 1..MaxClients : WF_vars(LazySocketEvent(c))

\* Start requests by every requester on the session of one owner: one
\* attach by "u1" and its connect, /send-message with each owner identifier
\* and with none, and the loops of the tasks.
NextOwner ==
    \/ \E num \in Nums : reqs = <<>> /\ CodeRequest(num, "u1")
    \/ \E r \in 1..Len(reqs) : CodePair(r)
    \/ \E c \in 1..Len(clients) : Open(c)
    \/ \E c \in 1..Len(clients) : OpenListed(c, TRUE, now)
    \/ \E sid \in SessionIds, o \in ReqOwners, t \in Epoch0 : SendMessage(sid, o, 1, "0", t)
    \/ \E sid \in SessionIds, o \in ReqOwners : SendRefused(sid, o, TRUE, 1, "0")
    \/ \E k \in 1..Len(tasks) : SendReturn(k, "ok", now)

SpecOwner == Init /\ [][NextOwner]_vars

\* Tasks across a change of socket: one session that connects, drops and
\* reconnects through initializeClient or is deleted by its owner, while
\* tasks started on it run.  The clock stands still.
NextSwap ==
    \/ \E num \in Nums : reqs = <<>> /\ CodeRequest(num, "u1")
    \/ \E r \in 1..Len(reqs) : CodePair(r)
    \/ \E c \in 1..Len(clients) : Open(c)
    \/ \E c \in 1..Len(clients) : OpenListed(c, TRUE, now)
    \/ \E c \in 1..Len(clients) : Close(c, FALSE)
    \/ \E i \in 1..Len(infos) : ReconnectTimer(i)
    \/ \E i \in 1..Len(infos) : InitializeClient(i, TRUE)
    \/ \E sid \in SessionIds : DeleteSession(sid, "u1")
    \/ \E sid \in SessionIds, n \in 1..MaxItems : SendMessage(sid, "u1", n, "0", now)
    \/ \E k \in 1..Len(tasks), res \in {"ok", "err", "closed"} : SendReturn(k, res, now)

SpecSwap == Init /\ [][NextSwap]_vars

\* ------------------------------------- the sessionId, character by character
\* Strings are sequences of characters here, so that the template string
\* `session_${num}_${ownerId}` is the concatenation the handler makes.
DigitChars == {"0", "1", "2", "3", "4", "5", "6", "7", "8", "9"}

\* req.query.number as it arrives, and req.query.ownerId (<<>> when missing).
RawNumbers == {<<"1">>, <<"1", "2">>, <<"+", "1">>, <<"1", "-", "2">>, <<"+">>}

RawOwners == {<<>>, <<"u">>, <<"2", "_", "u">>, <<"_", "u">>, <<"2">>, <<"d">>}

\* "defaultUser", the owner index.js gives a request without ownerId.
DefaultUserChars == <<"d", "e", "f", "a", "u", "l", "t", "U", "s", "e", "r">>

\* number.replace(/[^0-9]/g, "")
DigitsOnly(raw) == SelectSeq(raw, LAMBDA ch : ch \in DigitChars)

\* The template string without the "_" between the number and the owner.
SessionKeyNoSeparator(num, ownerId) ==
    <<"s", "e", "s", "s", "i", "o", "n", "_">> \o num \o ownerId

\* `session_${num}_${ownerId}`
SessionKey(num, ownerId) ==
    <<"s", "e", "s", "s", "i", "o", "n", "_">> \o num \o <<"_">> \o ownerId

\* The owner the handler uses: part_000 takes req.query.ownerId, index.js
\* falls back to "defaultUser".
KeyOwner(ownerId) ==
    IF ownerId = <<>> /\ build = "simple" THEN DefaultUserChars ELSE ownerId

\* The head of the /code handler: the number is stripped to its digits, a
\* request without a number or without an owner is refused, and the
\* sessionId is derived.  The request record keeps what was derived.
CodeKey(rawNumber, ownerId) ==
    /\ Len(reqs) < MaxReqs
    /\ DigitsOnly(rawNumber) # <<>>
    /\ KeyOwner(ownerId) # <<>>
    /\ reqs' = Append(reqs, [num |-> DigitsOnly(rawNumber), ownerId |-> KeyOwner(ownerId),
                             sid |-> SessionKey(DigitsOnly(rawNumber), KeyOwner(ownerId)),
                             pc |-> "auth", info |-> 0, client |-> 0,
                             isResolved |-> FALSE, resp |-> "none", responses |-> 0,
                             timeout |-> FALSE, direct |-> FALSE])
    /\ UNCHANGED <<groupReqs, taskVars, build, now, creds, activeClients, infos, clients,
                   reconnectTimers, initPending, openPending>>

NextKey == \E rawNumber \in RawNumbers, ownerId \in RawOwners : CodeKey(rawNumber, ownerId)

SpecKey == Init /\ [][NextKey]_vars

\* ================================================================ claims
\* The session of a sessionId and the task of a taskId, when registered.
InfoOf(sid) == infos[activeClients[sid]]

TaskOf(id) == tasks[activeTasks[id]]

Registered == {id \in Readings : activeTasks[id] # 0}

\* C1: for every sessionId at most one socket that has been created and not
\* yet closed exists.
C1_OneLiveClient ==
    \A sid \in SessionIds : Cardinality(LiveClientsOf(sid)) <= 1

\* A /code request is mid-setup: suspended before it has stored its handle, or
\* its handle is in the registry with its socket still connecting.
MidSetup(r) ==
    \/ reqs[r].pc = "auth"
    \/ /\ reqs[r].pc = "waiting"
       /\ activeClients[reqs[r].sid] = reqs[r].info
       /\ clients[reqs[r].client].phase = "connecting"

\* C2: while a /code request for a pair is mid-setup, a second /code request
\* for the same pair is answered "already being set up".
C2_SecondAttachConflict ==
    \A r \in 1..Len(reqs) :
        MidSetup(r) => CodeOutcome(reqs[r].num, reqs[r].ownerId) = "in-progress"

\* C3: a query made as owner b returns no session and no task of another
\* owner: task status, task list, session list, directory fetch.
C3_OwnerIsolation ==
    \A b \in Owners :
        /\ \A id \in Readings :
              TaskStatus(id, b).code = "ok" => tasks[TaskStatus(id, b).task].ownerId = b
        /\ \A k \in UserTasks(b) : tasks[k].ownerId = b
        /\ \A sid \in UserSessions(b) : InfoOf(sid).ownerId = b
        /\ \A sid \in SessionIds :
              GroupsOutcome(sid, b, FALSE, now) \in {"fetch", "cached"}
                  => InfoOf(sid).ownerId = b

\* C4: an operation addressed to an existing session gets past its ownership
\* gate only for the requester whose ownerId is the handle's.
C4_OnlyOwnerSucceeds ==
    \A sid \in SessionIds, o \in ReqOwners :
        (Has(sid) /\ o # InfoOf(sid).ownerId) =>
            /\ SendOutcome(sid, o, TRUE, 1, "0") \notin {"accepted", "lazy"}
            /\ DeleteOutcome(sid, o) # "deleted"
            /\ \A refresh \in BOOLEAN :
                  GroupsOutcome(sid, o, refresh, now) \notin {"fetch", "cached"}

\* C5: a stop accepted for a sending task leaves it reported "stopped"
\* (isSending false, stopRequested true) in the very next state, wherever its
\* loop is, and a task stopped by a caller is reported "stopped" ever after,
\* by /task-status too for as long as its taskId names it in the registry.
C5_StopIsImmediate ==
    [][ /\ \A id \in Readings, o \in ReqOwners, t \in Readings :
              (StopOutcome(id, o) = "stopped" /\ StopTask(id, o, t)) =>
                  /\ ~tasks'[activeTasks[id]].isSending
                  /\ tasks'[activeTasks[id]].stopRequested
                  /\ (TaskStatus(id, o))'.code = "ok"
                  /\ (TaskStatus(id, o))'.status = "stopped"
        /\ \A k \in 1..Len(tasks) :
              (tasks[k].endedBy = "user" /\ StatusOf(tasks[k]) = "stopped")
                  => StatusOf(tasks'[k]) = "stopped"
        /\ \A id \in Registered :
              ( /\ TaskOf(id).endedBy = "user" /\ StatusOf(TaskOf(id)) = "stopped"
                /\ activeTasks'[id] = activeTasks[id] )
                  => (TaskStatus(id, TaskOf(id).ownerId))'.status = "stopped"
      ]_vars

\* A stop was accepted while the loop awaited a send, and another while the
\* loop was in its pacing wait; neither loop has noticed yet.
C5_Witness ==
    \E k1, k2 \in 1..Len(tasks) :
        /\ tasks[k1].endedBy = "user" /\ tasks[k1].pc = "sending"
        /\ tasks[k2].endedBy = "user" /\ tasks[k2].pc = "delay"
        /\ StatusOf(tasks[k1]) = "stopped" /\ StatusOf(tasks[k2]) = "stopped"

\* C6: a task that is no longer "sending" keeps the status it has.
C6_TerminalSticky ==
    [][ \A k \in 1..Len(tasks) :
            StatusOf(tasks[k]) # "sending" => StatusOf(tasks'[k]) = StatusOf(tasks[k])
      ]_vars

\* The loop of a task stopped by a caller has unwound through its finally
\* block, and another task has completed.
C6_Witness ==
    \E k1, k2 \in 1..Len(tasks) :
        /\ tasks[k1].endedBy = "user" /\ tasks[k1].pc = "done"
        /\ StatusOf(tasks[k1]) = "stopped"
        /\ tasks[k2].pc = "done" /\ StatusOf(tasks[k2]) = "completed"

\* C7: 0 <= sentMessages <= totalMessages for every task, and no step lowers
\* a task's sentMessages.
C7_SentCountBounded ==
    [][ \A k \in 1..Len(tasks') :
            /\ 0 <= tasks'[k].sentMessages
            /\ tasks'[k].sentMessages <= tasks'[k].totalMessages
            /\ k <= Len(tasks) => tasks[k].sentMessages <= tasks'[k].sentMessages
      ]_vars

\* A task of more than one item has had every item sent.
C7_Witness ==
    \E k \in 1..Len(tasks) :
        /\ tasks[k].totalMessages > 1
        /\ tasks[k].sentMessages = tasks[k].totalMessages

\* C8: a stop on a task that has ended is answered with success and writes
\* nothing; a stop accepted on a sending task leaves a task on which a
\* second stop is that same no-op.
C8_StopIdempotent ==
    [][ \A id \in Registered, t \in Readings :
            LET o == TaskOf(id).ownerId
            IN  /\ ~TaskOf(id).isSending => StopOutcome(id, o) = "already-ended"
                /\ (~TaskOf(id).isSending /\ StopTask(id, o, t)) => tasks' = tasks
                /\ (TaskOf(id).isSending /\ StopTask(id, o, t))
                       => (StopOutcome(id, o))' = "already-ended"
      ]_vars

\* The registry holds a task that completed and a task a caller stopped.
C8_Witness ==
    \E id1, id2 \in Registered :
        /\ StatusOf(TaskOf(id1)) = "completed"
        /\ StatusOf(TaskOf(id2)) = "stopped" /\ TaskOf(id2).endedBy = "user"

\* C9: stop answers not-found for a taskId that is not in the registry and
\* access-denied for a requester whose ownerId is not the task's.
C9_StopErrors ==
    \A id \in Readings, o \in ReqOwners :
        /\ activeTasks[id] = 0 => StopOutcome(id, o) = "not-found"
        /\ (activeTasks[id] # 0 /\ o # TaskOf(id).ownerId)
               => StopOutcome(id, o) = "access-denied"

\* C10: every task was registered while the socket of its session was open.
C10_StartOnlyWhenConnected ==
    \A k \in 1..Len(tasks) : tasks[k].startPhase = "open"

\* A delay the start call may accept: a number that is not negative.
ValidDelay(delaySec) == ~ParseFloat(delaySec).nan /\ ParseFloat(delaySec).val >= 0

\* C11: a start call with no message, with no target, or with a delay that is
\* negative or no number is not accepted.
C11_InvalidStartRejected ==
    \A sid \in SessionIds, o \in ReqOwners, hasTarget \in BOOLEAN, n \in 0..MaxItems,
       d \in Delays \cup {""} :
        (n = 0 \/ ~hasTarget \/ ~ValidDelay(d))
            => SendOutcome(sid, o, hasTarget, n, d) # "accepted"

\* A handle reported ready: registered and not connecting.
Ready(inf) == inf.registered /\ ~inf.isConnecting

\* C12: a handle whose reconnectAttempts has passed maxReconnectAttempts (one
\* more transport drop than the limit, with no connect in between) is not
\* reported ready, and has no reconnect timer pending and no initializeClient
\* under way.
C12_ReconnectBound ==
    \A i \in 1..Len(infos) :
        infos[i].reconnectAttempts > MaxReconnectAttempts =>
            /\ ~Ready(infos[i])
            /\ reconnectTimers[i] = 0
            /\ initPending[i] = 0

\* C13: initializeClient makes a socket only for the sessionInfo that the
\* registry holds under its sessionId at that moment: never for a session
\* that was deleted, nor for the handle a later attach has replaced.
C13_NoResurrection ==
    [][ \A i \in 1..Len(infos) :
            ( /\ initPending[i] > 0
              /\ Len(clients') = Len(clients) + 1
              /\ clients'[Len(clients')].kind = "init"
              /\ clients'[Len(clients')].info = i )
                => activeClients[infos[i].sid] = i
      ]_vars

\* C14: handling a close with statusCode 401, on the socket of /code or on a
\* reconnect socket, leaves the handle with no cached group list and no
\* pairing code.
C14_AuthFailedClears ==
    [][ \A c \in 1..Len(clients) :
            Close(c, TRUE) =>
                /\ infos'[clients[c].info].groups \in {"null", "empty"}
                /\ infos'[clients[c].info].pairingCode = "none"
      ]_vars

\* C15: for as long as the registry holds the handle of a socket that was
\* closed with statusCode 401, that handle is not reported ready, and no
\* reconnect is scheduled or under way for it.
C15_AuthFailedStays ==
    \A c \in 1..Len(clients) :
        (clients[c].phase = "rejected" /\ activeClients[clients[c].sid] = clients[c].info) =>
            /\ ~Ready(infos[clients[c].info])
            /\ reconnectTimers[clients[c].info] = 0
            /\ initPending[clients[c].info] = 0

\* C16: for a ready session with a socket, /refresh-groups always calls the
\* listing; /groups answers from the cache when the cached list is not empty
\* and was fetched less than the cache lifetime ago, and calls the listing
\* when the lifetime has passed, when nothing was fetched yet, or when the
\* cached list is empty.
C16_CacheFreshness ==
    \A sid \in SessionIds, t \in Later :
        (build = "groups" /\ Has(sid) /\ Ready(InfoOf(sid)) /\ InfoOf(sid).client # 0) =>
            LET inf == InfoOf(sid)
                fresh == inf.groupsLastFetched # 0 /\ t - inf.groupsLastFetched < GroupsTTL
            IN  /\ GroupsOutcome(sid, inf.ownerId, TRUE, t) = "fetch"
                /\ (fresh /\ inf.groups = "list")
                       => GroupsOutcome(sid, inf.ownerId, FALSE, t) = "cached"
                /\ (~fresh \/ inf.groups \in {"null", "empty"})
                       => GroupsOutcome(sid, inf.ownerId, FALSE, t) = "fetch"

\* The cached group list of a handle with its stamp.
Cache(inf) == <<inf.groups, inf.groupsLastFetched>>

\* C17: a directory operation writes the handle's cache only when its listing
\* succeeds: neither the request up to its await, nor a listing that fails
\* (in /groups, in /refresh-groups, in the open handler) changes the cached
\* list or its stamp.
C17_FailureKeepsCache ==
    [][ /\ \A sid \in SessionIds, o \in ReqOwners, refresh \in BOOLEAN, t \in Readings :
              GroupsRequest(sid, o, refresh, t)
                  => Cache(infos'[activeClients[sid]]) = Cache(infos[activeClients[sid]])
        /\ \A g \in groupReqs :
              GroupsListed(g, "fail", now) => Cache(infos'[g.info]) = Cache(infos[g.info])
        /\ \A c \in openPending :
              OpenListed(c, FALSE, now)
                  => Cache(infos'[clients[c].info]) = Cache(infos[clients[c].info])
      ]_vars

\* C18: a handle reported ready has a socket, and (where the build keeps a
\* group directory) a cached list that is not null.
C18_ConnectedHasClient ==
    \A sid \in SessionIds :
        (Has(sid) /\ Ready(InfoOf(sid))) =>
            /\ InfoOf(sid).client # 0
            /\ build = "groups" => InfoOf(sid).groups # "null"

\* C19: a task whose send failed with a closed or disconnected transport has
\* left its loop for good and is reported "stopped"; when that was its only
\* failed send, sentMessages is the number of items before the failed one.
C19_FatalSendStops ==
    \A k \in 1..Len(tasks) :
        tasks[k].error = "disconnected" =>
            /\ tasks[k].pc = "done"
            /\ StatusOf(tasks[k]) = "stopped"
            /\ tasks[k].index < tasks[k].totalMessages
            /\ tasks[k].failed = 1 => tasks[k].sentMessages = tasks[k].index

\* The transport failed one task on its first item of several, and another
\* on its second item after the first was sent.
C19_Witness ==
    \E k1, k2 \in 1..Len(tasks) :
        /\ tasks[k1].error = "disconnected" /\ tasks[k1].totalMessages = 2
        /\ tasks[k1].index = 0 /\ tasks[k1].sentMessages = 0
        /\ tasks[k2].error = "disconnected" /\ tasks[k2].totalMessages = 2
        /\ tasks[k2].index = 1 /\ tasks[k2].sentMessages = 1 /\ tasks[k2].failed = 1

\* C20: every task started is eventually reported "completed" with every one
\* of its messages sent, when each send resolves and nobody stops it.
C20_EventuallyCompleted ==
    \A k \in 1..MaxTasks :
        (Len(tasks) >= k) ~>
            ( /\ Len(tasks) >= k
              /\ StatusOf(tasks[k]) = "completed"
              /\ tasks[k].sentMessages = tasks[k].totalMessages )

\* A task with no delay and a task with a delay of one second, each of
\* several messages, have both completed.
C20_Witness ==
    \E k1, k2 \in 1..Len(tasks) :
        /\ tasks[k1].chunks = 0 /\ tasks[k2].chunks = 1
        /\ \A k \in {k1, k2} :
              /\ tasks[k].totalMessages = MaxItems
              /\ StatusOf(tasks[k]) = "completed"
              /\ tasks[k].sentMessages = tasks[k].totalMessages

\* The sends of a task whose outcome the loop has written.
Settled(tk) == tk.sentMessages + tk.failed

\* C21: the send in flight is that of item `index`, begun only after the
\* outcome of every item before it was written (sentMessages or the error
\* count); a step begins at most the send of the next item, and only from a
\* state where the item before it is settled.
C21_SendsSequential ==
    [][ \A k \in 1..Len(tasks) :
            /\ tasks[k].pc = "sending" => Settled(tasks[k]) = tasks[k].index
            /\ tasks'[k].index \in {tasks[k].index, tasks[k].index + 1}
            /\ tasks'[k].pc = "sending" =>
                  /\ Settled(tasks'[k]) = tasks'[k].index
                  /\ tasks'[k].index < tasks'[k].totalMessages
            /\ tasks'[k].index = tasks[k].index =>
                  (tasks'[k].pc = "sending" => tasks[k].pc = "sending")
      ]_vars

\* The send of the second item of a task is in flight after the first item
\* was sent, and that of another task after its first item failed.
C21_Witness ==
    \E k1, k2 \in 1..Len(tasks) :
        /\ tasks[k1].pc = "sending" /\ tasks[k1].index = 1 /\ tasks[k1].sentMessages = 1
        /\ tasks[k2].pc = "sending" /\ tasks[k2].index = 1 /\ tasks[k2].failed = 1

\* No /code request of sessionId sid is suspended before its registration.
NoAttachUnderWay(sid) ==
    \A r \in 1..Len(reqs) : reqs[r].sid = sid => reqs[r].pc \notin {"auth", "temp"}

\* C22: a /delete-session that succeeds leaves the sessionId out of the
\* registry, every socket of the session closed and its credentials erased;
\* and while no attach for the sessionId is under way, a session in that
\* condition stays in it until a new /code request for it arrives.
C22_DeleteIsFinal ==
    [][ \A sid \in SessionIds :
            LET gone(ac, cs, cr) ==
                    /\ ac[sid] = 0
                    /\ cr[sid] = "none"
                    /\ \A c \in 1..Len(cs) : cs[c].sid = sid => cs[c].phase \notin Live
            IN  /\ (\E o \in ReqOwners : DeleteOutcome(sid, o) = "deleted" /\ DeleteSession(sid, o))
                       => gone(activeClients', clients', creds')
                /\ (gone(activeClients, clients, creds) /\ NoAttachUnderWay(sid)
                        /\ Len(reqs') = Len(reqs))
                       => gone(activeClients', clients', creds')
      ]_vars

\* C23: no two tasks accepted by /send-message have the same taskId.
C23_TaskIdsUnique ==
    \A k1, k2 \in 1..Len(tasks) : k1 # k2 => tasks[k1].taskId # tasks[k2].taskId

\* The retention timer of the task has not fired: the loop has not reached
\* its finally block, or the timer set there is pending.
Retained(tk) == tk.pc # "done" \/ tk.purge

\* C24: a task whose retention timer has not fired is in the task registry
\* under its taskId.
C24_RetainedUntilWindow ==
    \A k \in 1..Len(tasks) : Retained(tasks[k]) => activeTasks[tasks[k].taskId] # 0

\* /task-status and /stop-task answer not-found for the taskId, whoever asks.
NotFound(id) ==
    /\ activeTasks[id] = 0
    /\ \A o \in ReqOwners :
          TaskStatus(id, o).code = "not-found" /\ StopOutcome(id, o) = "not-found"

\* C25: a task whose status is no longer "sending" (its items exhausted, a
\* fatal send failure, or a stop request) leads to its taskId being out of the
\* registry for good, /task-status and /stop-task answering not-found for it.
C25_EventuallyPurged ==
    \A k \in 1..MaxTasks :
        (k <= Len(tasks) /\ ~tasks[k].isSending)
            ~> [](k <= Len(tasks) /\ NotFound(tasks[k].taskId))

C25_Witness ==
    \E k1, k2 \in 1..Len(tasks) :
        /\ Purged(k1) /\ tasks[k1].endedBy = "user" /\ NotFound(tasks[k1].taskId)
        /\ Purged(k2) /\ tasks[k2].error = "disconnected" /\ NotFound(tasks[k2].taskId)
        /\ tasks[k1].taskId # tasks[k2].taskId

\* The lengths a pairing code on the handle can have.  generateDisplayCode
\* makes 6 characters; the code that replaces it is what requestPairingCode
\* returned, the match of /[A-Z0-9]{6,8}/ in the qr, or a qr of 6 to 8
\* characters.
PairingCodeLengths(code) == IF code = "display" THEN {6} ELSE 6..8

\* C26: when an attach without stored credentials is answered with a pairing
\* code, the code recorded on the handle has 6 characters; and when the open
\* handler of a socket has run, the handle is registered, not connecting,
\* with reconnectAttempts = 0.
C26_PairingThenConnected ==
    [][ /\ \A r \in 1..Len(reqs) :
              (reqs[r].resp = "none" /\ reqs'[r].resp \in {"code_received", "qr_received"})
                  => PairingCodeLengths(infos'[reqs'[r].info].pairingCode) = {6}
        /\ \A c \in 1..Len(clients) :
              (\/ c \in openPending /\ c \notin openPending'
               \/ build = "simple" /\ clients[c].phase = "connecting"
                                   /\ clients'[c].phase = "open")
                  => /\ Ready(infos'[clients[c].info])
                     /\ infos'[clients[c].info].reconnectAttempts = 0
      ]_vars

C28_NoSendAfterStop ==
    [][ \A k \in 1..Len(tasks) :
            tasks[k].stopRequested =>
                /\ tasks'[k].pc = "sending" => tasks[k].pc = "sending"
                /\ tasks'[k].pc = "sending" => tasks'[k].index = tasks[k].index
                /\ Settled(tasks'[k]) <= tasks[k].index + 1
      ]_vars

\* A task of two items stopped by its owner during the first send, its loop
\* over with the second item never begun.
C28_Witness ==
    \E k \in 1..Len(tasks) :
        /\ tasks[k].endedBy = "user" /\ tasks[k].pc = "done"
        /\ tasks[k].totalMessages = 2 /\ tasks[k].index = 0
        /\ Settled(tasks[k]) = 1

\* C29: a send failure that is not a transport failure is recorded on the
\* task, leaves sentMessages and the cancel flag as they were, and, unless
\* the cancel flag is set, the loop goes on to its pacing wait, to the next
\* item, or ends when the failed item was the last.
C29_SendErrorContinues ==
    [][ \A k \in 1..Len(tasks), t \in Epoch0 :
            SendReturn(k, "err", t) =>
                /\ tasks'[k].error = "err"
                /\ tasks'[k].failed = tasks[k].failed + 1
                /\ tasks'[k].sentMessages = tasks[k].sentMessages
                /\ tasks'[k].stopRequested = tasks[k].stopRequested
                /\ ~tasks[k].stopRequested =>
                      \/ tasks'[k].pc = "delay" /\ tasks'[k].index = tasks[k].index
                      \/ tasks'[k].pc = "sending" /\ tasks'[k].index = tasks[k].index + 1
                      \/ /\ tasks'[k].pc = "done"
                         /\ tasks[k].index + 1 = tasks[k].totalMessages
      ]_vars

\* A task whose first send failed and whose second was sent, completed.
C29_Witness ==
    \E k \in 1..Len(tasks) :
        /\ tasks[k].error = "err" /\ tasks[k].failed = 1 /\ tasks[k].sentMessages = 1
        /\ tasks[k].totalMessages = 2 /\ tasks[k].pc = "done"
        /\ ~tasks[k].stopRequested /\ StatusOf(tasks[k]) = "completed"

\* C30: when a pacing wait of one second returns on a task whose cancel flag
\* is set, the loop ends there: it waits no further chunk and sends no
\* further item.
C30_StopCutsDelay ==
    [][ \A k \in 1..Len(tasks), t \in Epoch0 :
            (tasks[k].stopRequested /\ DelayReturn(k, t)) =>
                /\ tasks'[k].pc = "done"
                /\ tasks'[k].index = tasks[k].index
                /\ Settled(tasks'[k]) = Settled(tasks[k])
      ]_vars

\* A task stopped by its owner in the first chunk of a wait of two.
C30_Witness ==
    \E k \in 1..Len(tasks) :
        /\ tasks[k].pc = "delay" /\ tasks[k].chunks = 2 /\ tasks[k].waited = 0
        /\ tasks[k].stopRequested /\ tasks[k].endedBy = "user"
        /\ tasks[k].index + 1 < tasks[k].totalMessages

\* C31: a /code request that arrives for a pair whose handle is registered
\* and not connecting is answered "already-registered", and its arrival
\* changes no socket, no handle, no registry entry, no credential state and
\* no timer.
C31_ConnectedAttachIsNoOp ==
    [][ \A num \in Nums, o \in RegOwners :
            LET sid == SessionIdOf(num, o)
            IN  (/\ Has(sid) /\ Ready(InfoOf(sid))
                 /\ Len(reqs') = Len(reqs) + 1
                 /\ reqs'[Len(reqs')].sid = sid)
                    => /\ reqs'[Len(reqs')].resp = "already-registered"
                       /\ reqs'[Len(reqs')].responses = 1
                       /\ reqs'[Len(reqs')].pc = "done"
                       /\ <<clients, infos, activeClients, creds, reconnectTimers,
                            initPending, openPending>>' =
                          <<clients, infos, activeClients, creds, reconnectTimers,
                            initPending, openPending>>
      ]_vars

\* A second /code request answered from the registry while the session's
\* socket is open.
C31_Witness ==
    \E r \in 1..Len(reqs) :
        /\ reqs[r].resp = "already-registered" /\ reqs[r].info = 0
        /\ Has(reqs[r].sid) /\ Ready(InfoOf(reqs[r].sid))
        /\ InfoOf(reqs[r].sid).client # 0
        /\ PhaseOf(InfoOf(reqs[r].sid).client) = "open"

\* C32: every /send-message request that reaches the handler on a registered
\* session without a socket is eventually answered, with a taskId or an
\* error.
C32_StartAnswered ==
    \A s \in 1..MaxTasks :
        (s <= Len(sends)) ~> (s <= Len(sends) /\ sends[s].resp # "none")

\* The open handler of a socket of handle i has run to its end in this step.
OpenHandled(i) ==
    \E c \in 1..Len(clients) :
        /\ clients[c].info = i /\ clients[c].kind \in {"code", "init"}
        /\ \/ c \in openPending /\ c \notin openPending'
           \/ build = "simple" /\ clients[c].phase = "connecting"
                               /\ clients'[c].phase = "open"

\* The close handler of a socket of handle i has run, for a cause other
\* than 401.
CloseHandled(i) ==
    \E c \in 1..Len(clients) : clients[c].info = i /\ Close(c, FALSE)

\* C33: reconnectAttempts of a handle goes up by one on each handled close
\* that is not a 401, is zero after each handled open, and changes in no
\* other step.
C33_ReconnectAttemptsCounts ==
    [][ \A i \in 1..Len(infos) :
            /\ CloseHandled(i) =>
                  infos'[i].reconnectAttempts = infos[i].reconnectAttempts + 1
            /\ OpenHandled(i) => infos'[i].reconnectAttempts = 0
            /\ infos'[i].reconnectAttempts # infos[i].reconnectAttempts =>
                  CloseHandled(i) \/ OpenHandled(i)
      ]_vars

\* A handle two drops into its reconnects whose attach request was answered
\* by the timeout.
C33_Witness ==
    \E r \in 1..Len(reqs) :
        /\ reqs[r].resp = "timeout" /\ reqs[r].info # 0
        /\ infos[reqs[r].info].reconnectAttempts = 2
        /\ PhaseOf(infos[reqs[r].info].client) = "connecting"

\* The connection state of a handle.
Connection(inf) ==
    <<inf.client, inf.registered, inf.isConnecting, inf.reconnectAttempts>>

\* C34: no step of a /send-message handler and no step of a dispatch loop
\* changes the connection state of any handle.
C34_TaskLeavesConnection ==
    [][ (sends' # sends \/ tasks' # tasks) =>
            /\ Len(infos') = Len(infos)
            /\ \A i \in 1..Len(infos) : Connection(infos'[i]) = Connection(infos[i])
      ]_vars

\* C35: the file uploaded with a /send-message request is eventually
\* deleted: by the handler when it rejects the request, and by the finally
\* block of the loop when the request started a task.
C35_UploadReleased ==
    /\ \A s \in 1..MaxTasks :
          (s <= Len(sends)) ~> (s <= Len(sends) /\ sends[s].file # "held")
    /\ \A k \in 1..MaxTasks :
          (k <= Len(tasks)) ~> (k <= Len(tasks) /\ ~tasks[k].file)

\* C36: two /code requests derive the same sessionId exactly when they are
\* for the same pair of digits-only number and owner.
C36_SessionIdOfPair ==
    \A r1, r2 \in 1..Len(reqs) :
        (reqs[r1].sid = reqs[r2].sid)
            <=> (reqs[r1].num = reqs[r2].num /\ reqs[r1].ownerId = reqs[r2].ownerId)

\* Two requests for different pairs whose number and owner make the same
\* string when nothing separates them.
C36_Witness ==
    \E r1, r2 \in 1..Len(reqs) :
        /\ reqs[r1].num # reqs[r2].num
        /\ reqs[r1].num \o reqs[r1].ownerId = reqs[r2].num \o reqs[r2].ownerId
        /\ reqs[r1].sid # reqs[r2].sid

\* C37: the ownerId of every task is the ownerId of the handle of the
\* session it was started on.
C37_TaskOwnerIsSessionOwner ==
    \A k \in 1..Len(tasks), i \in 1..Len(infos) :
        infos[i].sid = tasks[k].sessionId => tasks[k].ownerId = infos[i].ownerId

\* C38: a task keeps the socket it was started with, and a send of the task
\* succeeds only on that socket: whatever socket the session holds by then,
\* a send resolves only while the task's own socket is open.
C38_SendsOnStartClient ==
    [][ \A k \in 1..Len(tasks) :
            /\ tasks'[k].client = tasks[k].client
            /\ SendReturn(k, "ok", now) => PhaseOf(tasks[k].client) = "open"
      ]_vars

\* A task whose socket closed and was replaced on the handle by an open one,
\* and whose send then failed on its own socket.
C38_Witness ==
    \E k \in 1..Len(tasks) :
        /\ Has(tasks[k].sessionId)
        /\ InfoOf(tasks[k].sessionId).client # tasks[k].client
        /\ PhaseOf(InfoOf(tasks[k].sessionId).client) = "open"
        /\ PhaseOf(tasks[k].client) = "closed"
        /\ tasks[k].error = "disconnected" /\ tasks[k].sentMessages = 1

\* C39: the step that acknowledges a stop leaves sentMessages as the
\* acknowledgement reports it; after it sentMessages goes up only by one,
\* only when the send in flight returns, and that step ends the loop, which
\* stays ended.
C39_AtMostOneAfterStop ==
    [][ \A k \in 1..Len(tasks) :
            /\ (tasks[k].endedBy = "none" /\ tasks'[k].endedBy = "user") =>
                  tasks'[k].sentMessages = tasks[k].sentMessages
            /\ tasks[k].endedBy = "user" =>
                  /\ tasks'[k].sentMessages \in
                        {tasks[k].sentMessages, tasks[k].sentMessages + 1}
                  /\ tasks'[k].sentMessages = tasks[k].sentMessages + 1 =>
                        tasks[k].pc = "sending" /\ tasks'[k].pc = "done"
                  /\ tasks[k].pc = "done" => tasks'[k].pc = "done"
      ]_vars

\* A task of two items without pacing, stopped during its first send: that
\* send was counted after the stop and the second item was never sent.
C39_Witness ==
    \E k \in 1..Len(tasks) :
        /\ tasks[k].endedBy = "user" /\ tasks[k].pc = "done" /\ tasks[k].chunks = 0
        /\ tasks[k].totalMessages = 2 /\ tasks[k].index = 0
        /\ tasks[k].sentMessages = 1

\* C40: a task reported "completed" has had a send attempted for every one
\* of its items: the sends that succeeded and the sends that failed add up
\* to totalMessages.
C40_CompletedAttemptedAll ==
    \A k \in 1..Len(tasks) :
        StatusOf(tasks[k]) = "completed" =>
            /\ Settled(tasks[k]) = tasks[k].totalMessages
            /\ tasks[k].index = tasks[k].totalMessages

\* A task reported completed although both of its sends failed.
C40_Witness ==
    \E k \in 1..Len(tasks) :
        /\ StatusOf(tasks[k]) = "completed"
        /\ tasks[k].totalMessages = 2 /\ tasks[k].failed = 2 /\ tasks[k].sentMessages = 0

====
